---- MODULE Spec2Model ----
(***************************************************************************)
(* A model of the concourse-jsonschema-generator pipeline:                 *)
(*   lit text --lit_parser::doc--> LitDocument --to_jsonschemas--> Schemas *)
(* with the type-expression grammar lit_type_parser used per attribute.    *)
(*                                                                         *)
(* Strings are sequences of one-character strings, so that trimming,       *)
(* replacing, prefix tests and the PEG grammars work on characters as the  *)
(* Rust code does.                                                         *)
(***************************************************************************)
EXTENDS Integers, Sequences, FiniteSets, TLC

VARIABLES
    pc,       \* position of the run: "start", "parsed", "done", "failed", "typed",
              \* and of a batch run: "main", "printed", "panicked"
    input,    \* the text handed to the parser (a lit document or a type string)
    doc,      \* result of lit::parse: [ok, val]
    out,      \* result of the stage after parsing: [ok, val]
    litfiles,     \* args.litfiles: the contents of the input files, in order
    read,         \* how many of the input files the iterator has consumed
    schema_docs,  \* the HashMap being collected: schema name -> Schema
    stdout        \* what the run has printed so far

vars == <<pc, input, doc, out, litfiles, read, schema_docs, stdout>>

\* the variables of a batch run
batchVars == <<litfiles, read, schema_docs, stdout>>

(***************************************************************************)
(* Characters                                                              *)
(***************************************************************************)
BS == "\\"
LB == "{"
RB == "}"
NL == "\n"
\* the backquote character (it cannot be written inside a TLA+ string)
BT == "bq"

Lower == {"a","b","c","d","e","f","g","h","i","j","k","l","m",
          "n","o","p","q","r","s","t","u","v","w","x","y","z"}
Upper == {"A","B","C","D","E","F","G","H","I","J","K","L","M",
          "N","O","P","Q","R","S","T","U","V","W","X","Y","Z"}
Digit == {"0","1","2","3","4","5","6","7","8","9"}
\* char::is_whitespace, restricted to the characters the model uses
White == {" ", NL}

Min(S) == CHOOSE x \in S : \A y \in S : x <= y
Max(S) == CHOOSE x \in S : \A y \in S : x >= y

\* s[i..] starts with the literal lit
StartsAt(s, i, lit) ==
    /\ i + Len(lit) - 1 <= Len(s)
    /\ \A k \in 1..Len(lit) : s[i + k - 1] = lit[k]

\* first position j >= i at which lit starts, Len(s)+1 if there is none
FindFrom(s, i, lit) ==
    Min({j \in i..(Len(s) + 1) : j = Len(s) + 1 \/ StartsAt(s, j, lit)})

\* end (exclusive) of the longest run of characters of class C starting at i
RunEnd(s, i, C) ==
    Min({j \in i..(Len(s) + 1) : j = Len(s) + 1 \/ s[j] \notin C})

(***************************************************************************)
(* LitNode (src/lit/types.rs).  One record shape for the three variants:   *)
(* Text(text), Fn(text = name, args), Comment(text).                       *)
(***************************************************************************)
Text(t) == [kind |-> "Text", text |-> t, args |-> <<>>]
Fn(name, args) == [kind |-> "Fn", text |-> name, args |-> args]
Comment(t) == [kind |-> "Comment", text |-> t, args |-> <<>>]

(***************************************************************************)
(* What the peg crate generates for the operators of a grammar.  A rule's  *)
(* result is a failure, or a success with the next position and a value.   *)
(***************************************************************************)
Fail == [ok |-> FALSE, pos |-> 0, val |-> <<>>]
Ok(p, v) == [ok |-> TRUE, pos |-> p, val |-> v]

\* a / b : ordered choice
Choice(a, b) == IF a.ok THEN a ELSE b

\* e followed by what K makes of its result; otherwise when e fails
IfOk(r, K(_), otherwise) == IF r.ok THEN K(r) ELSE otherwise

\* the action block of a rule: the value F(v) of a matched v
MapVal(r, F(_)) == IF r.ok THEN Ok(r.pos, F(r.val)) ELSE Fail

\* one more element n of a repetition in front of the rest of it
Cons(n, rest) == Ok(rest.pos, <<n.val>> \o rest.val)

\* $(e+) : the text s[i..j) matched by a repetition that ends at j
Span(s, i, j) == IF j > i THEN Ok(j, SubSeq(s, i, j - 1)) ELSE Fail

\* $((!close [_])+) close : the text s[from..j) in front of the first close,
\* found at j and n characters long
Enclosed(s, from, j, n) ==
    IF j > from /\ j <= Len(s) THEN Ok(j + n, SubSeq(s, from, j - 1)) ELSE Fail

\* e close : the literal close right after a matched e
Closed(s, r, close) ==
    IF r.ok /\ StartsAt(s, r.pos, close) THEN Ok(r.pos + Len(close), r.val)
    ELSE Fail

\* a pub rule: it matches when it consumes the whole input
Whole(s, r) ==
    IF r.ok /\ r.pos = Len(s) + 1 THEN [ok |-> TRUE, val |-> r.val]
    ELSE [ok |-> FALSE, val |-> <<>>]

(***************************************************************************)
(* lit_parser (src/lit.rs)                                                 *)
(***************************************************************************)
\* rule comment = "{-" content:$((!"-}" [_])+) "-}"
comment(s, i) ==
    IF ~StartsAt(s, i, <<LB, "-">>) THEN Fail
    ELSE MapVal(Enclosed(s, i + 2, FindFrom(s, i + 2, <<"-", RB>>), 2), Comment)

\* rule functionName = $(['a'..='z'|'A'..='Z']['a'..='z'|'A'..='Z'|'0'..='9'|'-']+)
\* returns the end (exclusive) of the name, or 0
functionName(s, i) ==
    IF i <= Len(s) /\ s[i] \in Lower \cup Upper
    THEN Span(s, i + 1, RunEnd(s, i + 1, Lower \cup Upper \cup Digit \cup {"-"})).pos
    ELSE 0

\* rule verbatimArgument = "{{{" content:$((!"}}}" [_])+) "}}}"
verbatimArgument(s, i) ==
    IF ~StartsAt(s, i, <<LB, LB, LB>>) THEN Fail
    ELSE MapVal(Enclosed(s, i + 3, FindFrom(s, i + 3, <<RB, RB, RB>>), 3),
                LAMBDA content : <<Text(content)>>)

\* mutant of textStep: the last alternative without its closing "}"
textStepUnclosed(s, i) ==
    IF i > Len(s) THEN 0
    ELSE IF s[i] \notin {BS, LB, RB} THEN i + 1
    ELSE IF StartsAt(s, i, <<BS, BS>>) THEN i + 2
    ELSE IF StartsAt(s, i, <<BS, LB>>) THEN i + 2
    ELSE IF StartsAt(s, i, <<BS, RB>>) THEN i + 2
    ELSE IF s[i] = LB THEN Span(s, i + 1, FindFrom(s, i + 1, <<RB>>)).pos
    ELSE 0

\* one alternative of textContent's repeated group, at position i:
\* the position after it, or 0 when none of the five alternatives matches
textStep(s, i) ==
    IF i > Len(s) THEN 0
    ELSE IF s[i] \notin {BS, LB, RB} THEN i + 1
    ELSE IF StartsAt(s, i, <<BS, BS>>) THEN i + 2
    ELSE IF StartsAt(s, i, <<BS, LB>>) THEN i + 2
    ELSE IF StartsAt(s, i, <<BS, RB>>) THEN i + 2
    ELSE IF s[i] = LB THEN Enclosed(s, i + 1, FindFrom(s, i + 1, <<RB>>), 1).pos
    ELSE 0

RECURSIVE textEnd(_, _)
\* the position after the longest repetition of textStep from i
textEnd(s, i) ==
    IF textStep(s, i) = 0 THEN i ELSE textEnd(s, textStep(s, i))

\* rule textContent = content:$(( ... )+)
textContent(s, i) == MapVal(Span(s, i, textEnd(s, i)), Text)

RECURSIVE LitNode(_, _), LitNodes(_, _), functionCall(_, _), arguments(_, _),
          argument(_, _), preformattedArgument(_, _), regularArgument(_, _)

\* rule LitNode = functionCall() / comment() / textContent()
LitNode(s, i) ==
    Choice(functionCall(s, i), Choice(comment(s, i), textContent(s, i)))

\* LitNode()* : greedy, never fails
LitNodes(s, i) ==
    IfOk(LitNode(s, i), LAMBDA n : Cons(n, LitNodes(s, n.pos)), Ok(i, <<>>))

\* rule functionCall = "\\" fnName:functionName() args:(argument()*)
functionCall(s, i) ==
    IF i <= Len(s) /\ s[i] = BS /\ functionName(s, i + 1) # 0
    THEN MapVal(arguments(s, functionName(s, i + 1)),
                LAMBDA args : Fn(SubSeq(s, i + 1, functionName(s, i + 1) - 1), args))
    ELSE Fail

\* argument()* : greedy, never fails
arguments(s, i) ==
    IfOk(argument(s, i), LAMBDA a : Cons(a, arguments(s, a.pos)), Ok(i, <<>>))

\* rule argument = verbatimArgument() / preformattedArgument() / regularArgument()
argument(s, i) ==
    Choice(verbatimArgument(s, i),
           Choice(preformattedArgument(s, i), regularArgument(s, i)))

\* rule preformattedArgument = "{{" content:(LitNode()*) "}}"
preformattedArgument(s, i) ==
    IF ~StartsAt(s, i, <<LB, LB>>) THEN Fail
    ELSE Closed(s, LitNodes(s, i + 2), <<RB, RB>>)

\* rule regularArgument = "{" content:(LitNode()*) "}"
regularArgument(s, i) ==
    IF ~StartsAt(s, i, <<LB>>) THEN Fail
    ELSE Closed(s, LitNodes(s, i + 1), <<RB>>)

\* pub rule doc = l:(LitNode()*), which must consume the whole input;
\* pub fn parse(contents) = lit_parser::doc(contents)
parse(s) == Whole(s, LitNodes(s, 1))

(***************************************************************************)
(* PropertyType (src/schema/types.rs).  One record shape for the variants: *)
(* OneOf(items), Constant(name), Ref(name), ArrayOf(items[1]), Dict.       *)
(***************************************************************************)
OneOf(ts) == [kind |-> "OneOf", name |-> <<>>, items |-> ts]
Constant(v) == [kind |-> "Constant", name |-> v, items |-> <<>>]
Ref(n) == [kind |-> "Ref", name |-> n, items |-> <<>>]
ArrayOf(t) == [kind |-> "ArrayOf", name |-> <<>>, items |-> <<t>>]
Dict == [kind |-> "Dict", name |-> <<>>, items |-> <<>>]

STRING_NAME == <<"s", "t", "r", "i", "n", "g">>

(***************************************************************************)
(* lit_type_parser (src/convert.rs)                                        *)
(***************************************************************************)
\* rule _ = [' ' | '\n']* : the position after the blanks
skipBlank(s, i) == RunEnd(s, i, {" ", NL})

\* rule key_or_value_string = $(['a'..='z'|'A'..='Z'|'0'..='9'|'.'|'_']+)
key_or_value_string(s, i) ==
    Span(s, i, RunEnd(s, i, Lower \cup Upper \cup Digit \cup {".", "_"}))

\* rule dictionary_type = "{" _ key_or_value_string() _ ":" _ key_or_value_string() "}"
dictionary_type(s, i) ==
    IF ~StartsAt(s, i, <<LB>>) THEN Fail
    ELSE IfOk(key_or_value_string(s, skipBlank(s, i + 1)),
              LAMBDA k :
                IF ~StartsAt(s, skipBlank(s, k.pos), <<":">>) THEN Fail
                ELSE MapVal(Closed(s,
                                   key_or_value_string(
                                       s, skipBlank(s, skipBlank(s, k.pos) + 1)),
                                   <<RB>>),
                            LAMBDA v : Dict),
              Fail)

\* rule constant_type = "`" value:key_or_value_string() "`"
constant_type(s, i) ==
    IF ~StartsAt(s, i, <<BT>>) THEN Fail
    ELSE MapVal(Closed(s, key_or_value_string(s, i + 1), <<BT>>), Constant)

\* mutant of refName: the identifier is kept as written
refNameVerbatim(name) == name

\* the name a reference keeps: "string" when the identifier contains '.'
refName(name) ==
    IF \E k \in 1..Len(name) : name[k] = "." THEN STRING_NAME ELSE name

\* rule ref_type = name:key_or_value_string()
ref_type(s, i) ==
    MapVal(key_or_value_string(s, i), LAMBDA name : Ref(refName(name)))

RECURSIVE lit_type(_, _), non_union_type(_, _), array_type(_, _),
          union_type(_, _), unionRest(_, _)

\* mutant of unionOf: a single member is returned as it is
unionOfCollapsing(members) ==
    IF Len(members) = 1 THEN members[1] ELSE OneOf(members)

\* the wrapper union_type builds around its members
unionOf(members) == OneOf(members)

\* pub rule lit_type = union_type() / non_union_type()
lit_type(s, i) == Choice(union_type(s, i), non_union_type(s, i))

\* rule non_union_type = array_type() / dictionary_type() / constant_type() / ref_type()
non_union_type(s, i) ==
    Choice(array_type(s, i),
           Choice(dictionary_type(s, i),
                  Choice(constant_type(s, i), ref_type(s, i))))

\* rule array_type = "[" inner_type:lit_type() "]"
array_type(s, i) ==
    IF ~StartsAt(s, i, <<"[">>) THEN Fail
    ELSE MapVal(Closed(s, lit_type(s, i + 1), <<"]">>), ArrayOf)

\* the (_ "|" _ non_union_type())* tail of the ++ repetition: a separator
\* that no member follows is not consumed
unionRest(s, i) ==
    IF ~StartsAt(s, skipBlank(s, i), <<"|">>) THEN Ok(i, <<>>)
    ELSE IfOk(non_union_type(s, skipBlank(s, skipBlank(s, i) + 1)),
              LAMBDA m : Cons(m, unionRest(s, m.pos)),
              Ok(i, <<>>))

\* rule union_type = inner_types:(non_union_type() ++ (_ "|" _))
\* "++" is one or more members, so a single member is a union too
union_type(s, i) ==
    IfOk(non_union_type(s, i),
         LAMBDA m : MapVal(Cons(m, unionRest(s, m.pos)),
                           LAMBDA members : unionOf(members)),
         Fail)

\* fn parse_type: the parsed type, or a panic (ok = FALSE) when lit_type
\* does not match the whole string
parse_type(s) == Whole(s, lit_type(s, 1))

(***************************************************************************)
(* String helpers of the Rust standard library used by src/convert.rs      *)
(***************************************************************************)
RECURSIVE Concat(_)
\* Iterator<String>::collect::<String>()
Concat(ss) == IF ss = <<>> THEN <<>> ELSE Head(ss) \o Concat(Tail(ss))

\* Iterator::map(f) over a sequence
MapSeq(ss, F(_)) == [k \in 1..Len(ss) |-> F(ss[k])]

\* str::trim_start / str::trim_end / str::trim
TrimStart(s) == SubSeq(s, RunEnd(s, 1, White), Len(s))
TrimEnd(s) ==
    SubSeq(s, 1, Max({j \in 0..Len(s) : j = 0 \/ s[j] \notin White}))
Trim(s) == TrimEnd(TrimStart(s))

RECURSIVE Replace(_, _, _)
\* str::replace(pat, rep): non-overlapping matches, left to right
Replace(s, pat, rep) ==
    IF s = <<>> THEN <<>>
    ELSE IF StartsAt(s, 1, pat)
         THEN rep \o Replace(SubSeq(s, Len(pat) + 1, Len(s)), pat, rep)
         ELSE <<Head(s)>> \o Replace(Tail(s), pat, rep)

\* str::trim_start_matches(c)
TrimStartMatches(s, c) == SubSeq(s, RunEnd(s, 1, {c}), Len(s))

RECURSIVE Split(_, _)
\* str::split(c)
Split(s, c) ==
    IF FindFrom(s, 1, <<c>>) > Len(s) THEN <<s>>
    ELSE <<SubSeq(s, 1, FindFrom(s, 1, <<c>>) - 1)>>
         \o Split(SubSeq(s, FindFrom(s, 1, <<c>>) + 1, Len(s)), c)

\* the parts of a split without a final empty part
dropLastEmpty(parts) ==
    IF parts[Len(parts)] = <<>> THEN SubSeq(parts, 1, Len(parts) - 1) ELSE parts

\* str::lines(): split at '\n', without a final empty line
Lines(s) == dropLastEmpty(Split(s, NL))

RECURSIVE Join(_, _)
\* [String]::join(sep)
Join(ss, sep) ==
    IF ss = <<>> THEN <<>>
    ELSE IF Len(ss) = 1 THEN ss[1]
    ELSE ss[1] \o sep \o Join(Tail(ss), sep)

(***************************************************************************)
(* Text renderer (src/convert.rs)                                          *)
(***************************************************************************)
\* the second map of clean_text: an empty line becomes a paragraph break
blankToBreak(t) == IF t = <<>> THEN <<NL, NL>> ELSE t

\* the two maps of clean_text on one line: " " + t.trim() + " ", which is
\* never the empty string the second map tests for
cleanLine(t) == blankToBreak(<<" ">> \o Trim(t) \o <<" ">>)

\* pub fn clean_text
clean_text(text) == Concat(MapSeq(Lines(text), cleanLine))

\* the closure of raw_text: the text of a Text node, "" for any other node
rawOf(n) == IF n.kind = "Text" THEN n.text ELSE <<>>

\* pub fn raw_text: the Text nodes' contents, concatenated
raw_text(nodes) == Concat(MapSeq(nodes, rawOf))

\* the positions of the first non-blank character of the non-empty lines
\* that have one
firstNonBlanks(ls) ==
    {RunEnd(ls[k], 1, {" "}) - 1 :
       k \in {n \in 1..Len(ls) :
                Len(ls[n]) > 0 /\ RunEnd(ls[n], 1, {" "}) <= Len(ls[n])}}

\* .min().unwrap_or(0)
minOrZero(S) == IF S = {} THEN 0 ELSE Min(S)

\* one line of a code block without its first trim_start_count characters
cutLine(l, trim_start_count) ==
    IF Len(l) > trim_start_count THEN SubSeq(l, trim_start_count + 1, Len(l))
    ELSE Trim(l)

\* the lines of a code block, each cut
cutLines(parts, trim_start_count) ==
    [k \in 1..Len(parts) |-> cutLine(parts[k], trim_start_count)]

\* pub fn trim_codeblock
trim_codeblock(text) ==
    Trim(Join(cutLines(Split(text, NL), minOrZero(firstNonBlanks(Lines(text)))),
              <<NL>>))

FN_EXAMPLE_TOGGLE == <<"e","x","a","m","p","l","e","-","t","o","g","g","l","e">>
FN_CODEBLOCK == <<"c","o","d","e","b","l","o","c","k">>
FN_CODE == <<"c","o","d","e">>
FN_BOLD == <<"b","o","l","d">>
FN_WARN == <<"w","a","r","n">>

RECURSIVE text_to_markdown(_), renderNode(_)
\* the closure of text_to_markdown: one node's rendering.  The formatting
\* calls index their arguments, which the source does without a length test.
renderNode(n) ==
    IF n.kind = "Text" THEN clean_text(n.text)
    ELSE IF n.kind = "Comment" THEN <<>>
    ELSE IF n.text = FN_EXAMPLE_TOGGLE
         THEN <<NL, "@","e","x","a","m","p","l","e"," ">>
              \o text_to_markdown(n.args[1]) \o <<NL>> \o text_to_markdown(n.args[2])
    ELSE IF n.text = FN_CODEBLOCK
         THEN <<BT, BT, BT>> \o Trim(raw_text(n.args[1])) \o <<NL>>
              \o trim_codeblock(raw_text(n.args[2])) \o <<NL, BT, BT, BT>>
    ELSE IF n.text = FN_CODE
         THEN <<BT>> \o raw_text(n.args[1]) \o <<BT>>
    ELSE IF n.text = FN_BOLD
         THEN <<"*", "*">> \o text_to_markdown(n.args[1]) \o <<"*", "*">>
    ELSE IF n.text = FN_WARN THEN text_to_markdown(n.args[1])
    ELSE Concat(MapSeq(n.args, text_to_markdown))

\* pub fn text_to_markdown
text_to_markdown(nodes) ==
    Replace(Replace(Concat(MapSeq(nodes, renderNode)),
                    <<BS, LB>>, <<LB>>),
            <<BS, RB>>, <<RB>>)

(***************************************************************************)
(* Schema extractor (src/convert.rs)                                       *)
(*                                                                         *)
(* A panic (an argument index out of range, "Unable to parse type") is the *)
(* result [ok |-> FALSE]; it aborts every enclosing call.                  *)
(***************************************************************************)
FN_SCHEMA == <<"s","c","h","e","m","a">>
FN_SCHEMA_GROUP == <<"s","c","h","e","m","a","-","g","r","o","u","p">>
FN_REQUIRED == <<"r","e","q","u","i","r","e","d","-",
                 "a","t","t","r","i","b","u","t","e">>
FN_OPTIONAL == <<"o","p","t","i","o","n","a","l","-",
                 "a","t","t","r","i","b","u","t","e">>
ORPHANED == <<"$","o","r","p","h","a","n","e","d",":">>

isSchemaFn(name) == name \in {FN_SCHEMA, FN_SCHEMA_GROUP}
isAttributeFn(name) == name \in {FN_REQUIRED, FN_OPTIONAL}

Panic == [ok |-> FALSE, val |-> <<>>]
Done(v) == [ok |-> TRUE, val |-> v]
\* two results in sequence: a panic in either aborts
Then(a, b) == IF a.ok /\ b.ok THEN Done(a.val \o b.val) ELSE Panic

\* Property and Schema (src/schema/types.rs)
Property(type_name, required, list, docs) ==
    [type_name |-> type_name, required |-> required, list |-> list, docs |-> docs]
Schema(schema_name, part_of_group, group_members, properties) ==
    [schema_name |-> schema_name, part_of_group |-> part_of_group,
     group_members |-> group_members, properties |-> properties]

\* Vec<(String, Property)>::into_iter().collect::<HashMap<_, _>>():
\* a later pair with the same key replaces the earlier one
toHashMap(pairs) ==
    [n \in {pairs[k][1] : k \in 1..Len(pairs)} |->
        pairs[Max({k \in 1..Len(pairs) : pairs[k][1] = n})][2]]

\* the slug of a schema name: trim, "`" "-" " " to "_", "__" to "_",
\* leading "_" stripped
slug(name) ==
    TrimStartMatches(
        Replace(Replace(Replace(Replace(Trim(name), <<BT>>, <<"_">>),
                                <<"-">>, <<"_">>),
                        <<" ">>, <<"_">>),
                <<"_", "_">>, <<"_">>),
        "_")

\* mutant of propsIndex: the third argument for both calls
propsIndexAlwaysThird(name) == 3

\* which argument of a schema / schema-group call is its property list
propsIndex(name) == IF name = FN_SCHEMA THEN 2 ELSE 3

\* mutant of partOfGroup: the flag on the schema call instead
partOfGroupOnSchema(name) == name = FN_SCHEMA

\* the part_of_group flag of the Schema a schema / schema-group call makes
partOfGroup(name) == name = FN_SCHEMA_GROUP

\* the guard of the orphan arm of collect_schemas
orphanArm(name, collect_orphaned) == isAttributeFn(name) /\ collect_orphaned

\* .map(|s| s.schema_name.clone())
schemaNames(schemas) == [k \in 1..Len(schemas) |-> schemas[k].schema_name]

\* mutant of groupMembersOf: without the part_of_group filter
groupMembersUnfiltered(schemas) == schemaNames(schemas)

\* the names collect_attributes adds to group_members
groupMembersOf(schemas) ==
    schemaNames(SelectSeq(schemas, LAMBDA x : x.part_of_group))

RECURSIVE collect_schemas(_, _), nodeSchemas(_, _), argsSchemas(_, _),
          collect_attributes(_), nodeAttributes(_), convert_prop(_, _),
          transform_to_jsonschemas(_, _), transform_to_jsonschemas_orphaned(_),
          transform_to_jsonschemas_non_orphaned(_)

\* The three traversal entry points that collect_schemas, collect_attributes
\* and convert_prop call.  collect_schemas reads a flag collect_orphaned that
\* it does not bind: it is the second parameter of the traversal, which the
\* two named variants fix.
transform_to_jsonschemas(d, collect_orphaned) == collect_schemas(d, collect_orphaned)
transform_to_jsonschemas_orphaned(d) == transform_to_jsonschemas(d, TRUE)
transform_to_jsonschemas_non_orphaned(d) == transform_to_jsonschemas(d, FALSE)

\* the tail of convert_prop: the Property built from the parsed type, with
\* the schemas found in the documentation
builtProp(prop_name, is_list, ty, inner_schemas, attribute_type, docs) ==
    IF ~inner_schemas.ok \/ ~ty.ok THEN [ok |-> FALSE]
    ELSE [ok |-> TRUE,
          inner |-> inner_schemas.val,
          name |-> prop_name,
          prop |-> Property(ty.val, attribute_type = FN_REQUIRED, is_list, docs)]

\* the middle of convert_prop: is_list and the parsed type, both from the
\* rendered type_name
typedProp(prop_name, type_name, inner_schemas, attribute_type, docs) ==
    builtProp(prop_name,
              StartsAt(type_name, 1, <<"[">>),
              parse_type(Replace(type_name, <<"-">>, <<"_">>)),
              inner_schemas, attribute_type, docs)

\* fn convert_prop: [ok, inner (schemas of the documentation), name, prop]
convert_prop(args, attribute_type) ==
    IF Len(args) < 3 THEN [ok |-> FALSE]
    ELSE typedProp(Trim(text_to_markdown(args[1])),
                   Trim(text_to_markdown(args[2])),
                   transform_to_jsonschemas_orphaned(args[3]),
                   attribute_type,
                   Trim(text_to_markdown(args[3])))

\* args.into_iter().flat_map(...) of a traversal over the arguments of a call
argsSchemas(args, collect_orphaned) ==
    IF args = <<>> THEN Done(<<>>)
    ELSE Then(transform_to_jsonschemas(Head(args), collect_orphaned),
              argsSchemas(Tail(args), collect_orphaned))

\* what collect_attributes gathers: [ok, props, found (schemas), members
\* (group member names)]; nothing for a node that is no call
NoAttributes == [ok |-> TRUE, props |-> <<>>, found |-> <<>>, members |-> <<>>]

\* the attribute arm of collect_attributes: the property, and the schemas of
\* its documentation added to found_schemas
attributeArm(cp) ==
    IF ~cp.ok THEN [ok |-> FALSE]
    ELSE [ok |-> TRUE, props |-> <<<<cp.name, cp.prop>>>>,
          found |-> cp.inner, members |-> <<>>]

\* the arm of collect_attributes for any other call but "schema": its
\* schemas added to found_schemas, the grouped ones named in group_members
otherFnArm(inner_schemas) ==
    IF ~inner_schemas.ok THEN [ok |-> FALSE]
    ELSE [ok |-> TRUE, props |-> <<>>,
          found |-> inner_schemas.val,
          members |-> groupMembersOf(inner_schemas.val)]

\* the closure of collect_attributes for one node of a property list
nodeAttributes(node) ==
    IF node.kind = "Fn" /\ isAttributeFn(node.text)
    THEN attributeArm(convert_prop(node.args, node.text))
    ELSE IF node.kind = "Fn" /\ node.text # FN_SCHEMA
    THEN otherFnArm(argsSchemas(node.args, TRUE))
    ELSE NoAttributes

\* what two nodes of a property list gather, in order: a panic in either aborts
ThenAttributes(h, t) ==
    IF ~h.ok \/ ~t.ok THEN [ok |-> FALSE]
    ELSE [ok |-> TRUE, props |-> h.props \o t.props,
          found |-> h.found \o t.found,
          members |-> h.members \o t.members]

\* fn collect_attributes, with the found_schemas and group_members it
\* extends returned beside the properties
collect_attributes(d) ==
    IF d = <<>> THEN NoAttributes
    ELSE ThenAttributes(nodeAttributes(Head(d)), collect_attributes(Tail(d)))

\* the end of the schema arm of collect_schemas: the schemas found in the
\* property list, those of the arguments, then the Schema of the call
schemaArm(name, schema_name, props, nested) ==
    IF ~props.ok \/ ~nested.ok THEN Panic
    ELSE Done(props.found \o nested.val \o
              <<Schema(schema_name, partOfGroup(name),
                       props.members, toHashMap(props.props))>>)

\* the end of the orphan arm of collect_schemas: the "$orphaned:" Schema,
\* then the schemas of the attribute's documentation
orphanSchemas(cp) ==
    IF ~cp.ok THEN Panic
    ELSE Done(<<Schema(ORPHANED \o cp.name, FALSE, <<>>,
                       toHashMap(<<<<cp.name, cp.prop>>>>))>>
              \o cp.inner)

\* the closure of collect_schemas for one node
nodeSchemas(node, collect_orphaned) ==
    IF node.kind # "Fn" THEN Done(<<>>)
    ELSE IF isSchemaFn(node.text)
    THEN IF Len(node.args) < propsIndex(node.text) THEN Panic
         ELSE schemaArm(node.text,
                        slug(text_to_markdown(node.args[1])),
                        collect_attributes(node.args[propsIndex(node.text)]),
                        argsSchemas(node.args, FALSE))
    ELSE IF orphanArm(node.text, collect_orphaned)
    THEN orphanSchemas(convert_prop(node.args, node.text))
    ELSE argsSchemas(node.args, collect_orphaned)

\* fn collect_schemas, with the flag collect_orphaned it reads as a parameter
collect_schemas(d, collect_orphaned) ==
    IF d = <<>> THEN Done(<<>>)
    ELSE Then(nodeSchemas(Head(d), collect_orphaned),
              collect_schemas(Tail(d), collect_orphaned))

\* pub fn to_jsonschemas: the free traversal of a whole document, in which
\* an attribute outside a schema is an orphan
to_jsonschemas(d) == collect_schemas(d, TRUE)

(***************************************************************************)
(* Lit source text of a call, as an author writes it                       *)
(***************************************************************************)
\* "{" arg "}" for each argument text
braced(argTexts) ==
    Concat([k \in 1..Len(argTexts) |-> <<LB>> \o argTexts[k] \o <<RB>>])
\* "\name{arg}{arg}..."
callText(name, argTexts) == <<BS>> \o name \o braced(argTexts)

(***************************************************************************)
(* Input documents.  A bounded family of lit documents that puts the       *)
(* recognized calls in every argument position: atoms, wrapped MaxDepth    *)
(* times in a call or followed by a sibling.                               *)
(***************************************************************************)
MaxDepth == 2

NAME_A == <<"a">>
NAME_G == <<"g">>
NAME_M == <<"m">>
NAME_P == <<"p">>
NAME_Q == <<"q">>
TYPE_S == <<"s">>
TYPE_LIST == <<"[", "s", "]">>
TYPE_BAD == <<"|">>
DOCS_D == <<"d">>
FN_OTHER == <<"w", "r">>

requiredText(n, t, d) == callText(FN_REQUIRED, <<n, t, d>>)
optionalText(n, t, d) == callText(FN_OPTIONAL, <<n, t, d>>)

\* well-formed calls that can stand beside another node
SiblingAtoms ==
    { requiredText(NAME_P, TYPE_S, DOCS_D),
      optionalText(NAME_P, TYPE_LIST, DOCS_D),
      callText(FN_SCHEMA_GROUP, <<NAME_G, NAME_M, <<>>>>) }

Atoms ==
    SiblingAtoms \cup
    { <<>>,
      <<"t">>,
      requiredText(NAME_Q, TYPE_BAD, DOCS_D),         \* a type no rule matches
      callText(FN_REQUIRED, <<NAME_P>>),               \* too few arguments
      callText(FN_SCHEMA, <<NAME_A>>),                 \* too few arguments
      callText(FN_SCHEMA_GROUP, <<NAME_G, NAME_M>>) }  \* too few arguments

\* a document x one level deeper: as each argument of each recognized call,
\* inside another call, or followed by a sibling
Wraps(x) ==
    { callText(FN_SCHEMA, <<NAME_A, x>>),
      callText(FN_SCHEMA, <<x, <<>>>>),
      callText(FN_SCHEMA_GROUP, <<NAME_G, x, <<>>>>),
      callText(FN_SCHEMA_GROUP, <<NAME_G, NAME_M, x>>),
      requiredText(NAME_P, TYPE_S, x),
      optionalText(x, TYPE_S, DOCS_D),
      callText(FN_OTHER, <<x>>) }
    \cup { x \o a : a \in SiblingAtoms }

\* the documents of one level, and each of them one level deeper
Deeper(prev) == prev \cup UNION { Wraps(x) : x \in prev }

RECURSIVE Family(_)
Family(k) == IF k = 0 THEN Atoms ELSE Deeper(Family(k - 1))

\* the document of the spec's first scenario, and variations of its four texts
ScenarioNames ==
    { NAME_A, <<"w", "i", "d", "g", "e", "t">>, <<"e", "_", "v">>,
      <<"a", " ", "-", " ", "b">> }
ScenarioTypes ==
    { TYPE_S, STRING_NAME, <<"e", "n", "v", "_", "v">>,
      TYPE_LIST \o <<"|">> \o TYPE_S, TYPE_S \o <<"|">> \o TYPE_LIST }
ScenarioDocs ==
    { DOCS_D, <<" ", "d", " ">>, <<"d", NL, "e">>,
      <<"T","h","e"," ","w","i","d","g","e","t"," ","n","a","m","e",".">> }
ScenarioDocuments ==
    { callText(FN_SCHEMA, <<n, requiredText(p, t, d)>>) :
        n \in ScenarioNames, p \in {NAME_P, <<"n","a","m","e">>},
        t \in ScenarioTypes, d \in ScenarioDocs }

Documents == Family(MaxDepth) \cup ScenarioDocuments

(***************************************************************************)
(* The run on one document: parse, then extract (src/main.rs parse,        *)
(* src/lit.rs parse, src/convert.rs to_jsonschemas).                       *)
(***************************************************************************)
None == [ok |-> FALSE, val |-> <<>>]

\* a run on one text reads no files, collects nothing and prints nothing
NoBatch ==
    /\ litfiles = <<>>
    /\ read = 0
    /\ schema_docs = <<>>
    /\ stdout = <<>>

Init ==
    /\ pc = "start"
    /\ input \in Documents
    /\ doc = None
    /\ out = None
    /\ NoBatch

\* lit::parse(contents); a parse error ends the run
Parse ==
    /\ pc = "start"
    /\ doc' = parse(input)
    /\ pc' = IF doc'.ok THEN "parsed" ELSE "failed"
    /\ UNCHANGED <<input, out>>
    /\ UNCHANGED batchVars

\* convert::to_jsonschemas(&doc); a panic ends the run
Extract ==
    /\ pc = "parsed"
    /\ out' = to_jsonschemas(doc.val)
    /\ pc' = IF out'.ok THEN "done" ELSE "failed"
    /\ UNCHANGED <<input, doc>>
    /\ UNCHANGED batchVars

Next == Parse \/ Extract

Spec == Init /\ [][Next]_vars

(***************************************************************************)
(* Vocabulary of the properties                                            *)
(***************************************************************************)
\* the extractor has run on the parsed document (and returned or panicked)
Extracted == doc.ok /\ pc \in {"done", "failed"}

\* an argument that is one Text node without markup characters
isPlainArg(arg) ==
    /\ Len(arg) = 1
    /\ arg[1].kind = "Text"
    /\ \A k \in 1..Len(arg[1].text) : arg[1].text[k] \notin {BS, LB, RB}

\* a plain identifier: letters and '_' only (so no '.', no '-')
isIdentifier(t) ==
    /\ Len(t) > 0
    /\ \A k \in 1..Len(t) : t[k] \in Lower \cup Upper \cup {"_"}

\* a name of letters only, which the slug of a schema name leaves as it is
isWord(t) ==
    /\ Len(t) > 0
    /\ \A k \in 1..Len(t) : t[k] \in Lower \cup Upper

isCall(node, name, arity) ==
    node.kind = "Fn" /\ node.text = name /\ Len(node.args) = arity

(***************************************************************************)
(* C1: a document that is one \schema{N}{\required-attribute{P}{T}{D}}     *)
(***************************************************************************)
\* the document has the shape of the scenario: N a name of letters, P and T
\* plain identifiers, D plain text
isScenario(d) ==
    /\ Len(d) = 1
    /\ isCall(d[1], FN_SCHEMA, 2)
    /\ isPlainArg(d[1].args[1]) /\ isWord(d[1].args[1][1].text)
    /\ Len(d[1].args[2]) = 1
    /\ isCall(d[1].args[2][1], FN_REQUIRED, 3)
    /\ \A k \in 1..3 : isPlainArg(d[1].args[2][1].args[k])
    /\ isIdentifier(d[1].args[2][1].args[1][1].text)
    /\ isIdentifier(d[1].args[2][1].args[2][1].text)

scenarioN(d) == d[1].args[1][1].text
scenarioP(d) == d[1].args[2][1].args[1][1].text
scenarioT(d) == d[1].args[2][1].args[2][1].text
scenarioD(d) == d[1].args[2][1].args[3][1].text

\* one Schema named N with the one required Property P, of the given type
\* and docs
scenarioResult(d, type, docs) ==
    /\ out.ok
    /\ Len(out.val) = 1
    /\ out.val[1].schema_name = scenarioN(d)
    /\ DOMAIN out.val[1].properties = {scenarioP(d)}
    /\ out.val[1].properties[scenarioP(d)].required
    /\ out.val[1].properties[scenarioP(d)].type_name = type
    /\ out.val[1].properties[scenarioP(d)].docs = docs

\* the lines of D, each trimmed, joined by two spaces, the whole trimmed;
\* for a D of one line this is D trimmed
docsOfLines(D) ==
    LET ls == Split(D, NL)
    IN  Trim(Join([k \in 1..Len(ls) |-> Trim(ls[k])], <<" ", " ">>))

\* C1 as claimed: for a document \schema{N}{\required-attribute{P}{T}{D}}
\* the extractor returns exactly one Schema N with exactly one required
\* Property P whose type is Reference(T) itself and whose docs are D trimmed.
C1_Claimed ==
    (Extracted /\ isScenario(doc.val)) =>
        scenarioResult(doc.val, Ref(scenarioT(doc.val)), Trim(scenarioD(doc.val)))

\* C1 (amended): for a document \schema{N}{\required-attribute{P}{T}{D}}
\* the extractor returns exactly one Schema N with exactly one required
\* Property P whose type is the one-member union OneOf([Reference(T)]) and
\* whose docs are the trimmed lines of D joined by two spaces (D trimmed when
\* D is one line).
C1_Scenario ==
    (Extracted /\ isScenario(doc.val)) =>
        /\ scenarioResult(doc.val, OneOf(<<Ref(scenarioT(doc.val))>>),
                          docsOfLines(scenarioD(doc.val)))
        /\ (Len(Split(scenarioD(doc.val), NL)) = 1 =>
              out.val[1].properties[scenarioP(doc.val)].docs
                = Trim(scenarioD(doc.val)))

\* witness of C1: the scenario document has been extracted, with a D that
\* carries surrounding whitespace
C1_Witness ==
    /\ pc = "done"
    /\ isScenario(doc.val)
    /\ Trim(scenarioD(doc.val)) # scenarioD(doc.val)

(***************************************************************************)
(* Walks of the node tree used to state the properties                     *)
(***************************************************************************)
RECURSIVE allNodes(_), argsNodes(_)
\* every node of the document tree, in document order
allNodes(d) ==
    IF d = <<>> THEN <<>>
    ELSE <<Head(d)>> \o argsNodes(Head(d).args) \o allNodes(Tail(d))
argsNodes(args) ==
    IF args = <<>> THEN <<>>
    ELSE allNodes(Head(args)) \o argsNodes(Tail(args))

isAttributeCall(n) == n.kind = "Fn" /\ isAttributeFn(n.text)

\* every required-attribute / optional-attribute call of the tree
allAttributes(d) == SelectSeq(allNodes(d), isAttributeCall)

\* the name and the type string an attribute call declares
attributeName(a) == Trim(text_to_markdown(a.args[1]))
attributeType(a) == Replace(Trim(text_to_markdown(a.args[2])), <<"-">>, <<"_">>)

\* an attribute call with its three arguments and a type the grammar accepts
isConvertible(a) == Len(a.args) >= 3 /\ parse_type(attributeType(a)).ok

\* the pair (name, Property) the call declares
propertyOf(a) ==
    <<attributeName(a),
      Property(parse_type(attributeType(a)).val, a.text = FN_REQUIRED,
               StartsAt(Trim(text_to_markdown(a.args[2])), 1, <<"[">>),
               Trim(text_to_markdown(a.args[3])))>>

RECURSIVE outsideAttributes(_), outsideOfNode(_)
\* the attribute calls that lie in no property list of a schema or
\* schema-group call: at the top, in calls of other names, in an attribute's
\* documentation, in a schema's other arguments
outsideAttributes(d) == UNION {outsideOfNode(d[k]) : k \in 1..Len(d)}
outsideOfNode(n) ==
    IF n.kind # "Fn" THEN {}
    ELSE IF isAttributeFn(n.text)
         THEN {n} \cup (IF Len(n.args) >= 3 THEN outsideAttributes(n.args[3]) ELSE {})
    ELSE UNION {outsideAttributes(n.args[k]) :
                  k \in (1..Len(n.args)) \ (IF isSchemaFn(n.text)
                                            THEN {propsIndex(n.text)} ELSE {})}

(***************************************************************************)
(* C2: \schema-group{G}{members}{props} with a \schema{M}{...} in members  *)
(***************************************************************************)
\* the member-list argument of a call
memberList(g) == IF Len(g.args) >= 2 THEN g.args[2] ELSE <<>>

\* node g is a schema-group call named by a plain identifier whose
\* member-list argument holds, at position j, a schema call named by a plain
\* identifier
isGroupWithMember(g, j) ==
    /\ isCall(g, FN_SCHEMA_GROUP, 3)
    /\ isPlainArg(g.args[1]) /\ isIdentifier(g.args[1][1].text)
    /\ j \in 1..Len(memberList(g))
    /\ isCall(g.args[2][j], FN_SCHEMA, 2)
    /\ isPlainArg(g.args[2][j].args[1])
    /\ isIdentifier(g.args[2][j].args[1][1].text)

\* the names of the attribute calls directly in the property list of schema m
ownProperties(m) ==
    {attributeName(m.args[2][k]) :
       k \in {i \in 1..Len(m.args[2]) : isAttributeCall(m.args[2][i])}}

\* the output holds a Schema of that name, flag and members
hasSchema(name, part_of_group, group_members) ==
    \E i \in 1..Len(out.val) :
        /\ out.val[i].schema_name = name
        /\ out.val[i].part_of_group = part_of_group
        /\ out.val[i].group_members = group_members

hasOrphanOf(a) ==
    \E i \in 1..Len(out.val) :
        /\ out.val[i].schema_name = ORPHANED \o attributeName(a)
        /\ ~out.val[i].part_of_group
        /\ out.val[i].group_members = <<>>
        /\ DOMAIN out.val[i].properties = {attributeName(a)}

\* the output holds every schema of the documentation of attribute call a
hasSchemasOfDocs(a) ==
    LET inner == to_jsonschemas(a.args[3])
    IN  \A k \in 1..Len(inner.val) : \E i \in 1..Len(out.val) :
            out.val[i] = inner.val[k]

\* C3 as claimed: every attribute call outside any schema / schema-group
\* property list produces its "$orphaned:" Schema in the output, together
\* with every schema of its documentation.
C3_Claimed ==
    pc = "done" =>
        \A a \in outsideAttributes(doc.val) :
            isConvertible(a) => hasOrphanOf(a) /\ hasSchemasOfDocs(a)

(***************************************************************************)
(* C4: one Property per attribute call                                     *)
(***************************************************************************)
\* how many attribute calls of the tree declare the pair v
declared(d, v) ==
    LET as == allAttributes(d)
    IN  Cardinality({k \in 1..Len(as) : propertyOf(as[k]) = v})

\* how many properties of the output's Schemas are the pair v
produced(v) ==
    Cardinality({i \in 1..Len(out.val) :
                   /\ v[1] \in DOMAIN out.val[i].properties
                   /\ out.val[i].properties[v[1]] = v[2]})

\* C4 as claimed: every attribute call of the tree contributes exactly one
\* Property to exactly one Schema of the output: as many properties of a
\* given name and value are produced as calls declare it.
C4_Claimed ==
    pc = "done" =>
        LET as == allAttributes(doc.val)
        IN  (\A k \in 1..Len(as) : isConvertible(as[k])) =>
                \A k \in 1..Len(as) :
                    produced(propertyOf(as[k])) = declared(doc.val, propertyOf(as[k]))

(***************************************************************************)
(* C5: group members are schemas of the same output                        *)
(***************************************************************************)
\* C5: each name in the group_members of a Schema of the output is the
\* schema_name of a Schema of the same output that has part_of_group = true.
C5_GroupMembersInOutput ==
    pc = "done" =>
        \A i \in 1..Len(out.val) :
            \A k \in 1..Len(out.val[i].group_members) :
                \E j \in 1..Len(out.val) :
                    /\ out.val[j].schema_name = out.val[i].group_members[k]
                    /\ out.val[j].part_of_group

\* witness of C5: a Schema of the output has a group member
C5_Witness ==
    /\ pc = "done"
    /\ \E i \in 1..Len(out.val) : out.val[i].group_members # <<>>

(***************************************************************************)
(* C9, C10: fatal errors                                                   *)
(***************************************************************************)
\* a schema call with fewer than 2 arguments, a schema-group call with fewer
\* than 3, an attribute call with fewer than 3
isShortCall(n) ==
    /\ n.kind = "Fn"
    /\ \/ isSchemaFn(n.text) /\ Len(n.args) < propsIndex(n.text)
       \/ isAttributeFn(n.text) /\ Len(n.args) < 3

\* an attribute call whose type string no rule of the grammar matches
isBadlyTyped(n) ==
    /\ isAttributeCall(n)
    /\ Len(n.args) >= 2
    /\ ~parse_type(attributeType(n)).ok

hasNode(d, P(_)) == \E k \in 1..Len(allNodes(d)) : P(allNodes(d)[k])

\* C9 as claimed: extraction aborts whenever the document holds, anywhere,
\* a schema, schema-group or attribute call with too few arguments.
C9_Claimed ==
    (Extracted /\ hasNode(doc.val, isShortCall)) => pc = "failed"

\* C10 as claimed: extraction aborts whenever an attribute call anywhere in
\* the document has a type string that no rule of the type grammar matches.
C10_Claimed ==
    (Extracted /\ hasNode(doc.val, isBadlyTyped)) => pc = "failed"

(***************************************************************************)
(* Type strings handed to parse_type on their own, and lit texts handed to *)
(* the markup parser: every string over a small alphabet, up to a length.  *)
(***************************************************************************)
MaxTypeLen == 5
MaxMembers == 3
MaxLitLen == 5

RECURSIVE Strings(_, _)
\* the strings over alphabet of length at most n
\* the strings of a set, and each of them with one more character
Longer(shorter, alphabet) ==
    shorter \cup {Append(t, c) : t \in shorter, c \in alphabet}

Strings(alphabet, n) ==
    IF n = 0 THEN {<<>>} ELSE Longer(Strings(alphabet, n - 1), alphabet)

TypeAlphabet == {"[", "]", "|", BT, "a", ".", " "}
LitAlphabet == {BS, LB, RB, "-", "a", " "}

\* the members of a bracketed list: a reference, a constant, a dotted name
MemberTexts == {<<"a">>, <<BT, "b", BT>>, <<"c", ".", "d">>}

\* "[" m1 "|" m2 ... "]"
bracketList(members) == <<"[">> \o Join(members, <<"|">>) \o <<"]">>

BracketLists ==
    {bracketList(ms) : ms \in UNION {[1..n -> MemberTexts] : n \in 1..MaxMembers}}

TypeStrings == Strings(TypeAlphabet, MaxTypeLen) \cup BracketLists
\* lit texts made of whole tokens: a call name, the delimiters, a text
MaxTokens == 4
LitTokens ==
    { <<BS, "a", "a">>, <<"a">>, <<LB>>, <<LB, LB, LB>>, <<LB, "-">>,
      <<RB>>, <<RB, RB, RB>>, <<"-", RB>> }

\* the strings of a set, and each of them with one more token
LongerByToken(shorter) == shorter \cup {t \o k : t \in shorter, k \in LitTokens}

RECURSIVE TokenStrings(_)
TokenStrings(n) == IF n = 0 THEN {<<>>} ELSE LongerByToken(TokenStrings(n - 1))

LitStrings == Strings(LitAlphabet, MaxLitLen) \cup TokenStrings(MaxTokens)

\* parse_type on its own
InitType ==
    /\ pc = "start"
    /\ input \in TypeStrings
    /\ doc = None
    /\ out = None
    /\ NoBatch

\* parse_type(&input): the type, or the panic "Unable to parse type"
ParseType ==
    /\ pc = "start"
    /\ out' = parse_type(input)
    /\ pc' = IF out'.ok THEN "typed" ELSE "failed"
    /\ UNCHANGED <<input, doc>>
    /\ UNCHANGED batchVars

NextType == ParseType

SpecType == InitType /\ [][NextType]_vars

\* the run on an arbitrary lit text
InitLit ==
    /\ pc = "start"
    /\ input \in LitStrings
    /\ doc = None
    /\ out = None
    /\ NoBatch

SpecLit == InitLit /\ [][Next]_vars

(***************************************************************************)
(* C6: the unions of a parsed type                                         *)
(***************************************************************************)
RECURSIVE typeNodes(_)
\* the type and every type nested in it
typeNodes(t) == {t} \cup UNION {typeNodes(t.items[k]) : k \in 1..Len(t.items)}

hasChar(s, c) == \E k \in 1..Len(s) : s[k] = c

\* no direct member of a OneOf of the parsed type is a OneOf
NoNestedUnion ==
    \A n \in typeNodes(out.val) :
        n.kind = "OneOf" => \A k \in 1..Len(n.items) : n.items[k].kind # "OneOf"

\* C6 as claimed: every OneOf of an accepted type has at least 2 members,
\* no direct member of a OneOf is a OneOf, and a type string without '|'
\* yields no OneOf.
C6_Claimed ==
    pc = "typed" =>
        /\ \A n \in typeNodes(out.val) : n.kind = "OneOf" => Len(n.items) >= 2
        /\ NoNestedUnion
        /\ (~hasChar(input, "|") => out.val.kind # "OneOf")

\* C6 (amended): every OneOf of an accepted type has at least 1 member, no
\* direct member of a OneOf is a OneOf, and a type string without '|' yields
\* a OneOf of exactly one member (the union is not collapsed).
C6_Unions ==
    pc = "typed" =>
        /\ \A n \in typeNodes(out.val) : n.kind = "OneOf" => Len(n.items) >= 1
        /\ NoNestedUnion
        /\ (~hasChar(input, "|") =>
              out.val.kind = "OneOf" /\ Len(out.val.items) = 1)

\* witness of C6: an accepted type string without '|' whose type nests a
\* union in an array
C6_Witness ==
    /\ pc = "typed"
    /\ ~hasChar(input, "|")
    /\ \E n \in typeNodes(out.val) : n.kind = "ArrayOf"

(***************************************************************************)
(* C7: a bracketed list of members                                         *)
(***************************************************************************)
KeyChars == Lower \cup Upper \cup Digit \cup {".", "_"}
isKey(t) == Len(t) > 0 /\ \A k \in 1..Len(t) : t[k] \in KeyChars

\* a member as written: a backquoted value or an identifier
isMember(m) ==
    \/ isKey(m)
    \/ Len(m) >= 3 /\ m[1] = BT /\ m[Len(m)] = BT /\ isKey(SubSeq(m, 2, Len(m) - 1))

\* the members of "[m1|m2|...]" as written
membersOf(s) == Split(SubSeq(s, 2, Len(s) - 1), "|")

isBracketList(s) ==
    /\ Len(s) >= 3
    /\ s[1] = "[" /\ s[Len(s)] = "]"
    /\ \A k \in 1..Len(membersOf(s)) : isMember(membersOf(s)[k])

\* the type the claim gives a member
memberType(m) ==
    IF m[1] = BT THEN Constant(SubSeq(m, 2, Len(m) - 1))
    ELSE IF hasChar(m, ".") THEN Ref(STRING_NAME)
    ELSE Ref(m)

memberTypes(s) == [k \in 1..Len(membersOf(s)) |-> memberType(membersOf(s)[k])]

\* C7 as claimed: parse_type of "[m1|m2|...]" is ArrayOf at the top level,
\* of the OneOf of the members in written order.
C7_Claimed ==
    (pc \in {"typed", "failed"} /\ isBracketList(input)) =>
        out.ok /\ out.val = ArrayOf(OneOf(memberTypes(input)))

\* C7 (amended): parse_type of "[m1|m2|...]" is a one-member OneOf at the
\* top level whose member is the ArrayOf of the OneOf of the members in
\* written order: a backquoted member is Constant(value), an identifier
\* without '.' is Reference(identifier), one with '.' is Reference("string").
C7_BracketList ==
    (pc \in {"typed", "failed"} /\ isBracketList(input)) =>
        out.ok /\ out.val = OneOf(<<ArrayOf(OneOf(memberTypes(input)))>>)

\* witness of C7: a parsed list of three members with a constant and a
\* dotted name
C7_Witness ==
    /\ pc = "typed"
    /\ isBracketList(input)
    /\ Len(membersOf(input)) = 3
    /\ \E k \in 1..3 : hasChar(membersOf(input)[k], ".")
    /\ \E k \in 1..3 : membersOf(input)[k][1] = BT

(***************************************************************************)
(* C8: unterminated delimiters                                             *)
(***************************************************************************)
RECURSIVE openBraces(_, _, _)
\* the number of '{' still open at the end of s, read from position i with
\* depth open: "\\", "\{" and "\}" are escapes, a '}' closes the last '{'
openBraces(s, i, depth) ==
    IF i > Len(s) THEN depth
    ELSE IF s[i] = BS /\ i < Len(s) /\ s[i + 1] \in {BS, LB, RB}
         THEN openBraces(s, i + 2, depth)
    ELSE IF s[i] = LB THEN openBraces(s, i + 1, depth + 1)
    ELSE IF s[i] = RB /\ depth > 0 THEN openBraces(s, i + 1, depth - 1)
    ELSE openBraces(s, i + 1, depth)

\* some '{' (of "{", "{{", "{{{" or "{-") is never closed
hasUnterminated(s) == openBraces(s, 1, 0) > 0

\* a '{' that no backslash precedes and no '}' follows
hasOpenBrace(s) ==
    \E i \in 1..Len(s) :
        /\ s[i] = LB
        /\ (i = 1 \/ s[i - 1] # BS)
        /\ \A j \in (i + 1)..Len(s) : s[j] # RB

RECURSIVE closesAll(_, _, _)
\* every '{' of s is closed by a later '}' and every '}' closes a '{'
closesAll(s, i, depth) ==
    IF i > Len(s) THEN depth = 0
    ELSE IF s[i] = LB THEN closesAll(s, i + 1, depth + 1)
    ELSE IF s[i] = RB THEN depth > 0 /\ closesAll(s, i + 1, depth - 1)
    ELSE closesAll(s, i + 1, depth)

\* an input without backslash whose delimiters are all terminated
isTerminated(s) == ~hasChar(s, BS) /\ closesAll(s, 1, 0)

\* the parser has run on the input
Parsed == pc # "start"

\* C8 as claimed: parse returns an error for every input with an
\* unterminated delimiter, whatever follows it, and a NodeList for every
\* input whose delimiters are all terminated.
C8_Claimed ==
    Parsed =>
        /\ (hasUnterminated(input) => ~doc.ok)
        /\ (isTerminated(input) => doc.ok)

\* C8 (amended): parse returns an error (never a NodeList) for every input
\* that contains a '{' which no backslash precedes and no '}' follows.
C8_OpenBrace ==
    (Parsed /\ hasOpenBrace(input)) => ~doc.ok

\* witness of C8: the parser has rejected an input whose "{-" is never closed
C8_Witness ==
    /\ pc = "failed"
    /\ hasOpenBrace(input)
    /\ \E i \in 1..Len(input) : StartsAt(input, i, <<LB, "-">>)

(***************************************************************************)
(* The batch run (src/main.rs main): every input file is parsed and        *)
(* extracted in order, its schemas are collected into a HashMap keyed by   *)
(* schema name, and the JSON Schema document is printed at the end.        *)
(***************************************************************************)
MaxFiles == 3

FILE_EMPTY == <<>>
FILE_A_REQUIRED == callText(FN_SCHEMA, <<NAME_A, requiredText(NAME_P, TYPE_S, DOCS_D)>>)
FILE_A_OPTIONAL == callText(FN_SCHEMA, <<NAME_A, optionalText(NAME_Q, TYPE_S, DOCS_D)>>)
\* two schemas in one file, the second repeating the name of the first
FILE_M_A_A ==
    callText(FN_SCHEMA, <<NAME_M, requiredText(NAME_P, TYPE_S, DOCS_D)>>)
    \o FILE_A_OPTIONAL \o FILE_A_REQUIRED
\* an unterminated argument: a markup parse error
FILE_PARSE_ERROR == FILE_A_REQUIRED \o <<LB>>
\* a type no rule matches: a panic in the extractor
FILE_TYPE_ERROR == callText(FN_SCHEMA, <<NAME_M, requiredText(NAME_Q, TYPE_BAD, DOCS_D)>>)
\* a schema call with too few arguments: a panic in the extractor
FILE_STRUCTURE_ERROR == callText(FN_SCHEMA, <<NAME_M>>)

Files ==
    { FILE_EMPTY, FILE_A_REQUIRED, FILE_A_OPTIONAL, FILE_M_A_A,
      FILE_PARSE_ERROR, FILE_TYPE_ERROR, FILE_STRUCTURE_ERROR }

Batches == UNION {[1..n -> Files] : n \in 0..MaxFiles}

\* the three outcomes of parse(contents) in main: Ok(schemas), Err(parse
\* error), or a panic inside the extractor (neither ok nor err)
extractedOf(r) == [ok |-> r.ok, err |-> FALSE, val |-> r.val]
extractParsed(d) ==
    IF d.ok THEN extractedOf(to_jsonschemas(d.val))
    ELSE [ok |-> FALSE, err |-> TRUE, val |-> <<>>]
parseFile(contents) == extractParsed(parse(contents))

\* HashMap::insert keeping the record already stored under the name
insertKeepingFirst(m, name, schema) ==
    [n \in DOMAIN m \cup {name} |-> IF n \in DOMAIN m THEN m[n] ELSE schema]

\* HashMap::insert as collect uses it: the new record replaces the old one
insert(m, name, schema) ==
    [n \in DOMAIN m \cup {name} |-> IF n = name THEN schema ELSE m[n]]

RECURSIVE extend(_, _)
\* .map(|schema| (schema.schema_name.clone(), schema)).collect(), one file's
\* schemas at a time, in the order the extractor returned them
extend(m, schemas) ==
    IF schemas = <<>> THEN m
    ELSE extend(insert(m, Head(schemas).schema_name, Head(schemas)), Tail(schemas))

\* the Err arm prints the path and the error before it panics
errorOutput(r) ==
    IF r.err THEN <<[kind |-> "path"], [kind |-> "error"]>> ELSE <<>>

\* a file that yields no schemas is skipped
positionAfterSkipping(r) == "main"

\* the match in the flat_map closure: Ok continues, Err panics; a panic in
\* the extractor unwinds through it
positionAfter(r) == IF r.ok THEN "main" ELSE "panicked"

\* the "definitions" printed: one entry per collected schema
schemaDocument(m) == [kind |-> "schema", definitions |-> DOMAIN m]

InitBatch ==
    /\ pc = "main"
    /\ input = <<>>
    /\ doc = None
    /\ out = None
    /\ litfiles \in Batches
    /\ read = 0
    /\ schema_docs = <<>>
    /\ stdout = <<>>

\* the iterator takes the next file, which parses and extracts
ReadFile ==
    /\ pc = "main"
    /\ read < Len(litfiles)
    /\ parseFile(litfiles[read + 1]).ok
    /\ read' = read + 1
    /\ schema_docs' = extend(schema_docs, parseFile(litfiles[read + 1]).val)
    /\ pc' = positionAfter(parseFile(litfiles[read + 1]))
    /\ UNCHANGED <<input, doc, out, litfiles, stdout>>

\* the iterator takes the next file, which fails
FailFile ==
    /\ pc = "main"
    /\ read < Len(litfiles)
    /\ ~parseFile(litfiles[read + 1]).ok
    /\ read' = read + 1
    /\ stdout' = stdout \o errorOutput(parseFile(litfiles[read + 1]))
    /\ pc' = positionAfter(parseFile(litfiles[read + 1]))
    /\ UNCHANGED <<input, doc, out, litfiles, schema_docs>>

\* println!("{}", schema) once the iterator is exhausted
PrintSchema ==
    /\ pc = "main"
    /\ read = Len(litfiles)
    /\ stdout' = Append(stdout, schemaDocument(schema_docs))
    /\ pc' = "printed"
    /\ UNCHANGED <<input, doc, out, litfiles, read, schema_docs>>

NextBatch == ReadFile \/ FailFile \/ PrintSchema

SpecBatch == InitBatch /\ [][NextBatch]_vars

(***************************************************************************)
(* C11: the collected map holds the last schema of each name               *)
(***************************************************************************)
RECURSIVE schemasOfFiles(_, _)
\* the schemas of the first n files, in processing order
schemasOfFiles(files, n) ==
    IF n = 0 THEN <<>>
    ELSE schemasOfFiles(files, n - 1) \o parseFile(files[n]).val

\* the schemas the run has handed to the map so far
processed == schemasOfFiles(litfiles, read)

\* the last schema named n in a sequence of schemas
lastNamed(schemas, n) ==
    schemas[Max({k \in 1..Len(schemas) : schemas[k].schema_name = n})]

\* some name occurs twice among the schemas, with different records
repeatsName(schemas) ==
    \E j, k \in 1..Len(schemas) :
        /\ j < k
        /\ schemas[j].schema_name = schemas[k].schema_name
        /\ schemas[j] # schemas[k]

\* m holds exactly one record per name of the schemas, the last of that name
holdsLast(m, schemas) ==
    /\ DOMAIN m = {schemas[k].schema_name : k \in 1..Len(schemas)}
    /\ \A n \in DOMAIN m : m[n] = lastNamed(schemas, n)

\* C11: at every point of a run that has not aborted, the map holds exactly
\* one record for each schema name processed so far, the last Schema of that
\* name in input-file order and extractor output order; and the run aborts
\* only on a file that fails on its own, never because a name is repeated.
C11_LastWins ==
    /\ pc \in {"main", "printed"} => holdsLast(schema_docs, processed)
    /\ pc = "panicked" => ~parseFile(litfiles[read]).ok

\* a finished run in which a name was repeated with a different record
C11_Witness == pc = "printed" /\ repeatsName(processed)

(***************************************************************************)
(* C12: a failing file aborts the run before anything is emitted           *)
(***************************************************************************)
\* the JSON Schema document has been printed
schemaPrinted == \E k \in 1..Len(stdout) : stdout[k].kind = "schema"

\* the files of the batch that fail on their own
failing(files) == {k \in 1..Len(files) : ~parseFile(files[k]).ok}

\* the run never reads past the first failing file
stopsAtFirst(bad) == bad # {} => read <= Min(bad)

onlyText(d) == \A k \in 1..Len(d) : d[k].kind = "Text"

\* the escapes \{ and \} collapsed to { and }
collapsed(s) == Replace(Replace(s, <<BS, LB>>, <<LB>>), <<BS, RB>>, <<RB>>)

\* C13 as claimed: for every input that parses and holds no call and no
\* comment, raw_text of the parsed document is the input's literal text with
\* the escapes \{ and \} collapsed to { and }.
C13_Claimed ==
    (Parsed /\ doc.ok /\ onlyText(doc.val)) =>
        raw_text(doc.val) = collapsed(input)

(***************************************************************************)
(* C14: a backslash that starts no call                                    *)
(***************************************************************************)
\* a letter followed by a letter, digit or hyphen starts at position i
identifierAt(s, i) ==
    /\ i + 1 <= Len(s)
    /\ s[i] \in Lower \cup Upper
    /\ s[i + 1] \in Lower \cup Upper \cup Digit \cup {"-"}

RECURSIVE hasStrayBackslash(_, _)
\* from position i on, some backslash is followed neither by an identifier
\* nor by the second character of an escape
hasStrayBackslash(s, i) ==
    IF i > Len(s) THEN FALSE
    ELSE IF s[i] # BS THEN hasStrayBackslash(s, i + 1)
    ELSE IF i < Len(s) /\ s[i + 1] \in {BS, LB, RB} THEN hasStrayBackslash(s, i + 2)
    ELSE IF identifierAt(s, i + 1) THEN hasStrayBackslash(s, i + 1)
    ELSE TRUE

\* the input holds no brace, so that no delimiter can be left open
braceFree(s) == \A i \in 1..Len(s) : s[i] \notin {LB, RB}

\* some Text node of the document holds a backslash
hasBackslashText(d) ==
    \E k \in 1..Len(allNodes(d)) :
        /\ allNodes(d)[k].kind = "Text"
        /\ \E i \in 1..Len(allNodes(d)[k].text) : allNodes(d)[k].text[i] = BS

\* C14 as claimed: an input with a backslash that no valid identifier follows
\* (and no other markup) parses, and the backslash is part of a Text node.
C14_Claimed ==
    (Parsed /\ braceFree(input) /\ hasStrayBackslash(input, 1)) =>
        doc.ok /\ hasBackslashText(doc.val)

(***************************************************************************)
(* C15: comments                                                           *)
(***************************************************************************)
\* the number of positions of s that hold the character c
count(s, c) == Cardinality({i \in 1..Len(s) : s[i] = c})

\* the input holds one comment "{-" body "-}" and no other brace; no
\* backslash precedes the comment
hasOneComment(s) ==
    /\ count(s, LB) = 1
    /\ count(s, RB) = 1
    /\ \E i \in 1..Len(s), j \in 1..Len(s) :
        /\ StartsAt(s, i, <<LB, "-">>)
        /\ StartsAt(s, j, <<"-", RB>>)
        /\ j >= i + 3
        /\ (i = 1 \/ s[i - 1] # BS)

\* the document holds a Comment node
hasCommentNode(d) == \E k \in 1..Len(allNodes(d)) : allNodes(d)[k].kind = "Comment"

\* some Text node of the document holds the character c
textHolds(d, c) ==
    \E k \in 1..Len(allNodes(d)) :
        /\ allNodes(d)[k].kind = "Text"
        /\ count(allNodes(d)[k].text, c) > 0

\* C15 as claimed: for an accepted input whose only braces are those of one
\* comment, wherever the comment stands, the parser emits a Comment node and
\* no Text node holds any part of the comment (so none holds its "{").
C15_Claimed ==
    (Parsed /\ doc.ok /\ hasOneComment(input)) =>
        hasCommentNode(doc.val) /\ ~textHolds(doc.val, LB)

(***************************************************************************)
(* C16: the list flag and the parsed type                                  *)
(***************************************************************************)
\* the Properties of the Schemas of the output
allProperties ==
    UNION {{out.val[i].properties[n] : n \in DOMAIN out.val[i].properties} :
             i \in 1..Len(out.val)}

\* C16 as claimed: for every Property the extractor produces, list is true
\* if and only if the Property's type is ArrayOf at the top level.
C16_Claimed ==
    pc = "done" =>
        \A p \in allProperties : p.list <=> p.type_name.kind = "ArrayOf"

(***************************************************************************)
(* C17: schema names are slug-normalized                                   *)
(***************************************************************************)
\* the names of the output's Schemas that come from schema and schema-group
\* calls (the others are the orphans' names)
calledNames ==
    {out.val[i].schema_name : i \in
       {k \in 1..Len(out.val) : ~StartsAt(out.val[k].schema_name, 1, ORPHANED)}}

\* no backtick, hyphen or space, no two underscores in a row, no leading
\* underscore
isSlug(t) ==
    /\ \A i \in 1..Len(t) : t[i] \notin {BT, "-", " "}
    /\ \A i \in 1..(Len(t) - 1) : ~(t[i] = "_" /\ t[i + 1] = "_")
    /\ (t # <<>> => t[1] # "_")

\* letters and single inner underscores
isVerbatimName(t) ==
    /\ t # <<>>
    /\ \A i \in 1..Len(t) : t[i] \in Lower \cup Upper \cup {"_"}
    /\ t[1] # "_" /\ t[Len(t)] # "_"
    /\ \A i \in 1..(Len(t) - 1) : ~(t[i] = "_" /\ t[i + 1] = "_")

\* the name texts of the top-level schema and schema-group calls whose name
\* argument is one Text node
topLevelNames(d) ==
    {d[k].args[1][1].text : k \in
       {j \in 1..Len(d) :
          /\ d[j].kind = "Fn" /\ isSchemaFn(d[j].text)
          /\ Len(d[j].args) >= 1
          /\ Len(d[j].args[1]) = 1 /\ d[j].args[1][1].kind = "Text"}}

\* C17 as claimed: every schema_name produced for a schema or schema-group
\* call is slug-normalized, whatever the rendered name text, and a name of
\* letters and single inner underscores is kept verbatim.
C17_Claimed ==
    pc = "done" =>
        /\ \A n \in calledNames : isSlug(n)
        /\ \A t \in topLevelNames(doc.val) : isVerbatimName(t) => t \in calledNames

=============================================================================
